---- MODULE Spec2Model ----
(***************************************************************************)
(* Model of the snake game in src/src/main.rs: the SnakeGame structure     *)
(* (grid map, ring of body slots and free slots held in one permutation    *)
(* array with its inverse), SnakeGame::update, and the loop of main that   *)
(* polls the keys, calls update and counts the moves.                      *)
(***************************************************************************)
EXTENDS Integers, Sequences, FiniteSets, TLC

\* Side of the square board.  The program uses 16; the model runs on small
\* boards so that every case up to a full board is explored.
MAP_SIDE_LENGTH == 2
MAP_SIZE == MAP_SIDE_LENGTH * MAP_SIDE_LENGTH

\* Bound of the model: the number of Running results explored (moves_count
\* of main is unbounded).
MaxMoves == 7

\* Bounds of the model of main's loop: the Running results explored there and
\* the number of terminal events buffered within one iteration.
MaxMainMoves == 2
MaxEvents == 2

DIRECTION_NONE == [x |-> 0, y |-> 0]
DIRECTION_RIGHT == [x |-> 1, y |-> 0]
DIRECTION_UP == [x |-> 0, y |-> -1]
DIRECTION_LEFT == [x |-> -1, y |-> 0]
DIRECTION_DOWN == [x |-> 0, y |-> 1]

\* The direction against d.
Opposite(d) == [x |-> 0 - d.x, y |-> 0 - d.y]

\* The values main can pass to update (the key mapping of main).
Directions == {DIRECTION_NONE, DIRECTION_RIGHT, DIRECTION_UP, DIRECTION_LEFT, DIRECTION_DOWN}

CELL_EMPTY == 0
CELL_FOOD == 1
CELL_SNAKE == 2

STATE_OVER == 0
STATE_READY == 1
STATE_RUN == 2

\* Value of `result` before the first update call has returned.
NO_RESULT == STATE_RUN + 1
\* Value of `collision` when update returned before its collision match.
NO_CELL == CELL_SNAKE + 1
\* Value of `reported` before main has printed the final count.
NOT_REPORTED == 0 - 1

\* The panics of the program: none, an unsigned subtraction below zero
\* (length - 1 or length -= 1 with length 0), a random draw from an empty
\* range, and the panic!("Invalid cell value") arm.
NO_FAULT == "none"
FAULT_UNDERFLOW == "subtract with overflow"
FAULT_EMPTY_RANGE == "empty range"
FAULT_INVALID_CELL == "invalid cell value"
Faults == {NO_FAULT, FAULT_UNDERFLOW, FAULT_EMPTY_RANGE, FAULT_INVALID_CELL}

Cells == 0 .. (MAP_SIZE - 1)

VARIABLES
    direction,          \* SnakeGame.direction
    map,                \* SnakeGame.map
    tail_index,         \* SnakeGame.tail_index
    length,             \* SnakeGame.length
    hashed_positions,   \* SnakeGame.hashed_positions
    indices,            \* SnakeGame.indices
    input,              \* the direction passed to the last update call
    result,             \* the value the last update call returned
    collision,          \* the cell kind the last update call matched on
    moves_count,        \* moves_count of main: the Running results so far
    steered,            \* TRUE once a non-None direction has been passed to update
    reversed,           \* TRUE when the last call passed the opposite of the remembered direction
    only_right,         \* TRUE while every update call so far passed DIRECTION_RIGHT
    fault,              \* the panic that stopped the program, NO_FAULT if none
    pc,                 \* where main is: in its loop, after the break, or done
    events,             \* the terminal events main read in its last iteration
    reported            \* the count main has printed, NOT_REPORTED before

vars == <<direction, map, tail_index, length, hashed_positions, indices, input, result, collision, moves_count, steered, reversed,
          only_right, fault, pc, events, reported>>

\* The variables of main outside its update call.
mainVars == <<pc, events, reported>>

\* The fields of SnakeGame.
gameVars == <<direction, map, tail_index, length, hashed_positions, indices>>

\* The SnakeGame value held by the variables.
Game ==
    [direction |-> direction, map |-> map, tail_index |-> tail_index,
     length |-> length, hashed_positions |-> hashed_positions, indices |-> indices]

\* Position::from_hash
from_hash(hash) ==
    [x |-> hash % MAP_SIDE_LENGTH, y |-> hash \div MAP_SIDE_LENGTH]

\* Position::as_hash (only ever called on coordinates inside the grid, where
\* the `as usize` casts keep the value)
as_hash(p) ==
    p.y * MAP_SIDE_LENGTH + p.x

\* Variant of wrapping_offset with the modulus one too small.
wrapping_offset_short(base, offset) ==
    (base + offset) % (MAP_SIZE - 1)

\* SnakeGame::wrapping_offset
wrapping_offset(base, offset) ==
    (base + offset) % MAP_SIZE

\* Variant of random_food_hashed_position that counts the free slots from
\* the tail instead of from the slot after the head.
random_food_hashed_position_from_tail(g) ==
    LET empty_indices_base == g.tail_index
        empty_indices_length == MAP_SIZE - g.length
    IN  { g.hashed_positions[wrapping_offset(empty_indices_base, r)] :
            r \in 0 .. (empty_indices_length - 1) }

\* Variant of random_food_hashed_position whose range leaves out the last
\* free slot.
random_food_hashed_position_short(g) ==
    LET empty_indices_base == wrapping_offset(g.tail_index, g.length)
        empty_indices_length == MAP_SIZE - g.length - 1
    IN  { g.hashed_positions[wrapping_offset(empty_indices_base, r)] :
            r \in 0 .. (empty_indices_length - 1) }

\* SnakeGame::random_food_hashed_position: the set of values it can return,
\* one per value of the random draw in 0..empty_indices_length (exclusive).
random_food_hashed_position(g) ==
    LET empty_indices_base == wrapping_offset(g.tail_index, g.length)
        empty_indices_length == MAP_SIZE - g.length
    IN  { g.hashed_positions[wrapping_offset(empty_indices_base, r)] :
            r \in 0 .. (empty_indices_length - 1) }

\* SnakeGame::generate_food: the set of games it can leave.
generate_food(g) ==
    { [g EXCEPT !.map[food_hash] = CELL_FOOD] :
        food_hash \in random_food_hashed_position(g) }

\* Variant of pop_snake_tail that leaves the tail cell marked in the map.
pop_snake_tail_keep_map(g) ==
    [g EXCEPT !.tail_index = wrapping_offset(g.tail_index, 1),
              !.length = g.length - 1]

\* SnakeGame::pop_snake_tail (the game it leaves; the returned hash is unused)
pop_snake_tail(g) ==
    LET tail_hash == g.hashed_positions[g.tail_index]
    IN  [g EXCEPT !.tail_index = wrapping_offset(g.tail_index, 1),
                  !.map[tail_hash] = CELL_EMPTY,
                  !.length = g.length - 1]

\* Variant of push_snake_head that overwrites the slot after the head
\* without moving the cell stored there.
push_snake_head_no_relocate(g, head_hash) ==
    LET relocate_from_index == wrapping_offset(g.tail_index, g.length)
    IN  [g EXCEPT !.hashed_positions[relocate_from_index] = head_hash,
                  !.indices[head_hash] = relocate_from_index,
                  !.map[head_hash] = CELL_SNAKE,
                  !.length = g.length + 1]

\* Variant of push_snake_head that does not update the index of the cell it
\* relocates.
push_snake_head_stale_index(g, head_hash) ==
    LET new_head_index == g.indices[head_hash]
        relocate_from_index == wrapping_offset(g.tail_index, g.length)
        hp1 == [g.hashed_positions EXCEPT ![new_head_index] = g.hashed_positions[relocate_from_index]]
        hp2 == [hp1 EXCEPT ![relocate_from_index] = head_hash]
    IN  [g EXCEPT !.hashed_positions = hp2,
                  !.indices[head_hash] = relocate_from_index,
                  !.map[head_hash] = CELL_SNAKE,
                  !.length = g.length + 1]

\* SnakeGame::push_snake_head
push_snake_head(g, head_hash) ==
    LET new_head_hash == head_hash
        new_head_index == g.indices[new_head_hash]
        relocate_from_index == wrapping_offset(g.tail_index, g.length)
        relocate_from_hash == g.hashed_positions[relocate_from_index]
        hp1 == [g.hashed_positions EXCEPT ![new_head_index] = g.hashed_positions[relocate_from_index]]
        hp2 == [hp1 EXCEPT ![relocate_from_index] = head_hash]
        ix1 == [g.indices EXCEPT ![new_head_hash] = relocate_from_index]
        ix2 == [ix1 EXCEPT ![relocate_from_hash] = new_head_index]
    IN  [g EXCEPT !.hashed_positions = hp2,
                  !.indices = ix2,
                  !.map[new_head_hash] = CELL_SNAKE,
                  !.length = g.length + 1]

\* An outcome of update: the game it leaves, the value it returns and the
\* cell kind it matched on.
Outcome(g, ret, cell) ==
    [game |-> g, ret |-> ret, cell |-> cell, fault |-> NO_FAULT]

\* The outcome of an update call that panics: nothing is returned.
Panic(g, kind) ==
    [game |-> g, ret |-> NO_RESULT, cell |-> NO_CELL, fault |-> kind]

\* Variant of the collision match that pops the tail before it reads the map.
collide_pop_first(g, new_head_hash) ==
    LET popped == pop_snake_tail(g)
        cell == popped.map[new_head_hash]
    IN  CASE cell = CELL_EMPTY ->
                { Outcome(push_snake_head(popped, new_head_hash), STATE_RUN, cell) }
          [] cell = CELL_FOOD ->
                IF g.length >= MAP_SIZE - 1
                THEN { Outcome(g, STATE_OVER, cell) }
                ELSE { Outcome(f, STATE_RUN, cell) :
                         f \in generate_food(push_snake_head(g, new_head_hash)) }
          [] cell = CELL_SNAKE ->
                { Outcome(g, STATE_OVER, cell) }

\* Variant of the collision match whose Food arm pops the tail as the Empty
\* arm does.
collide_food_pops(g, new_head_hash) ==
    LET cell == g.map[new_head_hash]
    IN  CASE cell = CELL_EMPTY ->
                { Outcome(push_snake_head(pop_snake_tail(g), new_head_hash), STATE_RUN, cell) }
          [] cell = CELL_FOOD ->
                IF g.length >= MAP_SIZE - 1
                THEN { Outcome(g, STATE_OVER, cell) }
                ELSE { Outcome(f, STATE_RUN, cell) :
                         f \in generate_food(push_snake_head(pop_snake_tail(g), new_head_hash)) }
          [] cell = CELL_SNAKE ->
                { Outcome(g, STATE_OVER, cell) }

\* Variant of the collision match whose Food arm pushes the head before it
\* tests for a full board.
collide_push_before_full(g, new_head_hash) ==
    LET cell == g.map[new_head_hash]
        pushed == push_snake_head(g, new_head_hash)
    IN  CASE cell = CELL_EMPTY ->
                { Outcome(push_snake_head(pop_snake_tail(g), new_head_hash), STATE_RUN, cell) }
          [] cell = CELL_FOOD ->
                IF pushed.length >= MAP_SIZE
                THEN { Outcome(pushed, STATE_OVER, cell) }
                ELSE { Outcome(f, STATE_RUN, cell) : f \in generate_food(pushed) }
          [] cell = CELL_SNAKE ->
                { Outcome(g, STATE_OVER, cell) }

\* Variant of the collision match whose Food arm places the new food before
\* it pushes the head.
collide_food_first(g, new_head_hash) ==
    LET cell == g.map[new_head_hash]
    IN  CASE cell = CELL_EMPTY ->
                { Outcome(push_snake_head(pop_snake_tail(g), new_head_hash), STATE_RUN, cell) }
          [] cell = CELL_FOOD ->
                IF g.length >= MAP_SIZE - 1
                THEN { Outcome(g, STATE_OVER, cell) }
                ELSE { Outcome(push_snake_head(f, new_head_hash), STATE_RUN, cell) :
                         f \in generate_food(g) }
          [] cell = CELL_SNAKE ->
                { Outcome(g, STATE_OVER, cell) }

\* Variant of the collision match whose Food arm tests for a full board one
\* cell too late.
collide_full_late(g, new_head_hash) ==
    LET cell == g.map[new_head_hash]
    IN  CASE cell = CELL_EMPTY ->
                IF g.length = 0
                THEN { Panic(g, FAULT_UNDERFLOW) }
                ELSE { Outcome(push_snake_head(pop_snake_tail(g), new_head_hash), STATE_RUN, cell) }
          [] cell = CELL_FOOD ->
                IF g.length >= MAP_SIZE
                THEN { Outcome(g, STATE_OVER, cell) }
                ELSE LET pushed == push_snake_head(g, new_head_hash)
                     IN  IF MAP_SIZE - pushed.length <= 0
                         THEN { Panic(pushed, FAULT_EMPTY_RANGE) }
                         ELSE { Outcome(f, STATE_RUN, cell) : f \in generate_food(pushed) }
          [] cell = CELL_SNAKE ->
                { Outcome(g, STATE_OVER, cell) }
          [] OTHER ->
                { Panic(g, FAULT_INVALID_CELL) }

\* Variant of the collision match whose Empty arm pushes the head without
\* popping the tail.
collide_empty_grows(g, new_head_hash) ==
    LET cell == g.map[new_head_hash]
    IN  CASE cell = CELL_EMPTY ->
                { Outcome(push_snake_head(g, new_head_hash), STATE_RUN, cell) }
          [] cell = CELL_FOOD ->
                IF g.length >= MAP_SIZE - 1
                THEN { Outcome(g, STATE_OVER, cell) }
                ELSE LET pushed == push_snake_head(g, new_head_hash)
                     IN  IF MAP_SIZE - pushed.length <= 0
                         THEN { Panic(pushed, FAULT_EMPTY_RANGE) }
                         ELSE { Outcome(f, STATE_RUN, cell) : f \in generate_food(pushed) }
          [] cell = CELL_SNAKE ->
                { Outcome(g, STATE_OVER, cell) }
          [] OTHER ->
                { Panic(g, FAULT_INVALID_CELL) }

\* SnakeGame::update, the collision match on map[new_head_hash].
collide(g, new_head_hash) ==
    LET cell == g.map[new_head_hash]
    IN  CASE cell = CELL_EMPTY ->
                IF g.length = 0
                THEN { Panic(g, FAULT_UNDERFLOW) }
                ELSE { Outcome(push_snake_head(pop_snake_tail(g), new_head_hash), STATE_RUN, cell) }
          [] cell = CELL_FOOD ->
                IF g.length >= MAP_SIZE - 1
                THEN { Outcome(g, STATE_OVER, cell) }
                ELSE LET pushed == push_snake_head(g, new_head_hash)
                     IN  IF MAP_SIZE - pushed.length <= 0
                         THEN { Panic(pushed, FAULT_EMPTY_RANGE) }
                         ELSE { Outcome(f, STATE_RUN, cell) : f \in generate_food(pushed) }
          [] cell = CELL_SNAKE ->
                { Outcome(g, STATE_OVER, cell) }
          [] OTHER ->
                { Panic(g, FAULT_INVALID_CELL) }

\* Variant of the head computation that wraps the candidate around to the
\* opposite edge instead of testing the boundary.
step_wrap(g) ==
    LET head_index == wrapping_offset(g.tail_index, g.length - 1)
        head_position == from_hash(g.hashed_positions[head_index])
        new_head_position ==
            [x |-> (head_position.x + g.direction.x + MAP_SIDE_LENGTH) % MAP_SIDE_LENGTH,
             y |-> (head_position.y + g.direction.y + MAP_SIDE_LENGTH) % MAP_SIDE_LENGTH]
    IN  collide(g, as_hash(new_head_position))

\* Variant of the boundary check that forgets the direction when it returns
\* Over.
step_over_resets(g) ==
    LET head_index == wrapping_offset(g.tail_index, g.length - 1)
        head_position == from_hash(g.hashed_positions[head_index])
        new_head_position == [x |-> head_position.x + g.direction.x,
                              y |-> head_position.y + g.direction.y]
    IN  IF \/ new_head_position.x >= MAP_SIDE_LENGTH
           \/ new_head_position.x < 0
           \/ new_head_position.y >= MAP_SIDE_LENGTH
           \/ new_head_position.y < 0
        THEN { Outcome([g EXCEPT !.direction = DIRECTION_NONE], STATE_OVER, NO_CELL) }
        ELSE collide(g, as_hash(new_head_position))

\* SnakeGame::update, from the head computation to the boundary check.
step(g) ==
    LET head_index == wrapping_offset(g.tail_index, g.length - 1)
        head_position == from_hash(g.hashed_positions[head_index])
        new_head_position == [x |-> head_position.x + g.direction.x,
                              y |-> head_position.y + g.direction.y]
    IN  IF g.length = 0
        THEN { Panic(g, FAULT_UNDERFLOW) }
        ELSE IF \/ new_head_position.x >= MAP_SIDE_LENGTH
                \/ new_head_position.x < 0
                \/ new_head_position.y >= MAP_SIDE_LENGTH
                \/ new_head_position.y < 0
             THEN { Outcome(g, STATE_OVER, NO_CELL) }
             ELSE collide(g, as_hash(new_head_position))

\* Variant of update without the early return for a direction still None.
update_no_ready(g, d) ==
    LET g1 == IF d # DIRECTION_NONE THEN [g EXCEPT !.direction = d] ELSE g
    IN  step(g1)

\* Variant of update that ignores a direction opposite to the remembered one.
update_reject_reversal(g, d) ==
    LET g1 == IF d # DIRECTION_NONE /\ d # Opposite(g.direction)
              THEN [g EXCEPT !.direction = d] ELSE g
    IN  IF g1.direction = DIRECTION_NONE
        THEN { Outcome(g1, STATE_READY, NO_CELL) }
        ELSE step(g1)

\* Variant of update that stores the passed direction even when it is None.
update_always_assign(g, d) ==
    LET g1 == [g EXCEPT !.direction = d]
    IN  IF g1.direction = DIRECTION_NONE
        THEN { Outcome(g1, STATE_READY, NO_CELL) }
        ELSE step(g1)

\* SnakeGame::update: the set of outcomes of update(d) on game g.
update(g, d) ==
    LET g1 == IF d # DIRECTION_NONE THEN [g EXCEPT !.direction = d] ELSE g
    IN  IF g1.direction = DIRECTION_NONE
        THEN { Outcome(g1, STATE_READY, NO_CELL) }
        ELSE step(g1)

\* Default::default, the game before the initial snake is pushed.
SNAKE_POSITION == [x |-> MAP_SIDE_LENGTH \div 2, y |-> MAP_SIDE_LENGTH \div 2]

\* Variant of default that places the food before it pushes the snake.
default_food_first ==
    LET tmp == [direction |-> DIRECTION_NONE,
                map |-> [c \in Cells |-> CELL_EMPTY],
                tail_index |-> as_hash(SNAKE_POSITION),
                length |-> 0,
                hashed_positions |-> [i \in Cells |-> i],
                indices |-> [i \in Cells |-> i]]
    IN  { push_snake_head(f, as_hash(SNAKE_POSITION)) : f \in generate_food(tmp) }

\* Default::default: the set of games it can return.
default ==
    LET tmp == [direction |-> DIRECTION_NONE,
                map |-> [c \in Cells |-> CELL_EMPTY],
                tail_index |-> as_hash(SNAKE_POSITION),
                length |-> 0,
                hashed_positions |-> [i \in Cells |-> i],
                indices |-> [i \in Cells |-> i]]
    IN  generate_food(push_snake_head(tmp, as_hash(SNAKE_POSITION)))

\* The state once SnakeGame::default() has returned in main.
Init ==
    /\ \E g \in default :
         /\ direction = g.direction
         /\ map = g.map
         /\ tail_index = g.tail_index
         /\ length = g.length
         /\ hashed_positions = g.hashed_positions
         /\ indices = g.indices
    /\ input = DIRECTION_NONE
    /\ result = NO_RESULT
    /\ collision = NO_CELL
    /\ moves_count = 0
    /\ steered = FALSE
    /\ reversed = FALSE
    /\ only_right = TRUE
    /\ fault = NO_FAULT
    /\ pc = "loop"
    /\ events = <<>>
    /\ reported = NOT_REPORTED

\* What crossterm::event::read() can give main: one of the four arrow keys,
\* another key, or something that is not Ok(Event::Key(_)).
ArrowKeys == {"Up", "Down", "Left", "Right"}
Events == ArrowKeys \cup {"OtherKey", "NotKey"}

\* main, the match on key_event.code.
key_direction(code) ==
    CASE code = "Up" -> DIRECTION_UP
      [] code = "Down" -> DIRECTION_DOWN
      [] code = "Left" -> DIRECTION_LEFT
      [] code = "Right" -> DIRECTION_RIGHT
      [] OTHER -> DIRECTION_NONE

\* main, the while loop over the buffered events, from the value dir has.
RECURSIVE poll_from(_, _)
poll_from(buffer, dir) ==
    IF buffer = <<>>
    THEN dir
    ELSE poll_from(Tail(buffer),
                   IF Head(buffer) = "NotKey" THEN dir ELSE key_direction(Head(buffer)))

\* main, the block that computes `direction` for one iteration.
poll_direction(buffer) ==
    poll_from(buffer, DIRECTION_NONE)

\* The buffers of terminal events explored for one iteration.
Buffers ==
    UNION { [1 .. n -> Events] : n \in 0 .. MaxEvents }

\* Variant of the match in main that counts every result but Over.
count_move_not_over(ret, count) ==
    IF ret # STATE_OVER THEN count + 1 ELSE count

\* main, the match on the value update returned: the new moves_count.
count_move(ret, count) ==
    IF ret = STATE_RUN THEN count + 1 ELSE count

\* One call content.update(d) and the count main keeps of its result.
Call(d) ==
    /\ fault = NO_FAULT
    /\ moves_count < MaxMoves
    /\ \E o \in update(Game, d) :
           /\ direction' = o.game.direction
           /\ map' = o.game.map
           /\ tail_index' = o.game.tail_index
           /\ length' = o.game.length
           /\ hashed_positions' = o.game.hashed_positions
           /\ indices' = o.game.indices
           /\ input' = d
           /\ result' = o.ret
           /\ collision' = o.cell
           /\ fault' = o.fault
           /\ moves_count' = count_move(o.ret, moves_count)
    /\ steered' = (steered \/ d # DIRECTION_NONE)
    /\ reversed' = (d # DIRECTION_NONE /\ d = Opposite(direction))
    /\ only_right' = (only_right /\ d = DIRECTION_RIGHT)

\* An update call made on the game by any caller, in any order.
Update(d) ==
    /\ Call(d)
    /\ UNCHANGED mainVars

Next ==
    \E d \in Directions : Update(d)

\* Every sequence of update calls on the game default() returned.
Spec == Init /\ [][Next]_vars

\* One iteration of main's loop with the events in buffer pending: poll,
\* update, match on the result.
Iterate(buffer) ==
    /\ pc = "loop"
    /\ moves_count < MaxMainMoves
    /\ Call(poll_direction(buffer))
    /\ events' = buffer
    /\ pc' = IF result' = STATE_OVER THEN "over" ELSE "loop"
    /\ UNCHANGED reported

\* main after the break: print the count.
Report ==
    /\ pc = "over"
    /\ reported' = moves_count
    /\ pc' = "exit"
    /\ UNCHANGED <<gameVars, input, result, collision, moves_count, steered,
                   reversed, only_right, fault, events>>

MainNext ==
    \/ \E buffer \in Buffers : Iterate(buffer)
    \/ Report

\* The program: main's loop on the game default() returned.
MainSpec == Init /\ [][MainNext]_vars

TypeOK ==
    /\ direction \in Directions
    /\ map \in [Cells -> {CELL_EMPTY, CELL_FOOD, CELL_SNAKE}]
    /\ tail_index \in Cells
    /\ length \in 1 .. MAP_SIZE
    /\ hashed_positions \in [Cells -> Cells]
    /\ indices \in [Cells -> Cells]
    /\ input \in Directions
    /\ result \in {STATE_OVER, STATE_READY, STATE_RUN, NO_RESULT}
    /\ collision \in {CELL_EMPTY, CELL_FOOD, CELL_SNAKE, NO_CELL}
    /\ moves_count \in 0 .. MaxMoves
    /\ steered \in BOOLEAN
    /\ reversed \in BOOLEAN
    /\ only_right \in BOOLEAN
    /\ fault \in Faults
    /\ pc \in {"loop", "over", "exit"}
    /\ events \in Seq(Events)
    /\ Len(events) <= MaxEvents
    /\ reported \in {NOT_REPORTED} \cup (0 .. MaxMoves)

(***************************************************************************)
(* Vocabulary of the properties.  These read the structure directly, with  *)
(* their own index arithmetic, so that they do not depend on the           *)
(* operators that model the code.                                          *)
(***************************************************************************)

\* Slot i of the ring counted from the tail.
RingSlot(i) == (tail_index + i) % MAP_SIZE

\* The slots of the snake segment and the slots outside it.
SnakeSlots == { RingSlot(i) : i \in 0 .. (length - 1) }
FreeSlots == { RingSlot(i) : i \in length .. (MAP_SIZE - 1) }

\* The cell indices stored in the snake segment and in the free slots.
RingCells == { hashed_positions[s] : s \in SnakeSlots }
FreeCells == { hashed_positions[s] : s \in FreeSlots }

\* The cells of each kind in the map.
SnakeCells == { c \in Cells : map[c] = CELL_SNAKE }
EmptyCells == { c \in Cells : map[c] = CELL_EMPTY }
FoodCells == { c \in Cells : map[c] = CELL_FOOD }

\* The body from tail to head, as a sequence of cell indices.
Body == [i \in 1 .. length |-> hashed_positions[RingSlot(i - 1)]]
TailCell == hashed_positions[tail_index]
HeadCell == hashed_positions[RingSlot(length - 1)]

\* Coordinates of a cell index, and the grid distance of two cells.
CellX(c) == c % MAP_SIDE_LENGTH
CellY(c) == c \div MAP_SIDE_LENGTH
Abs(n) == IF n < 0 THEN -n ELSE n
OneStep(a, b) ==
    \/ Abs(CellX(a) - CellX(b)) = 1 /\ CellY(a) = CellY(b)
    \/ Abs(CellY(a) - CellY(b)) = 1 /\ CellX(a) = CellX(b)

\* The candidate head of a tick that moves along d from the current head.
Candidate(d) == [x |-> CellX(HeadCell) + d.x, y |-> CellY(HeadCell) + d.y]
OffGrid(p) ==
    \/ p.x \notin 0 .. (MAP_SIDE_LENGTH - 1)
    \/ p.y \notin 0 .. (MAP_SIDE_LENGTH - 1)
CellOf(p) == p.y * MAP_SIDE_LENGTH + p.x

\* The ring segment runs over the end of the array.
Wrapped == tail_index + length > MAP_SIZE

(***************************************************************************)
(* C1..C4: the occupancy invariants.                                       *)
(***************************************************************************)

\* C1: in every reachable state the cells marked CELL_SNAKE are exactly the
\* values stored in the `length` slots of hashed_positions starting at
\* tail_index, and those slots hold no cell index twice.
C1_SnakeIsRing ==
    /\ SnakeCells = RingCells
    /\ Cardinality(SnakeSlots) = length
    /\ Cardinality(RingCells) = length

\* C1 witness: a grown snake whose segment wraps around the end of the array,
\* right after a move.
C1_Witness ==
    /\ result = STATE_RUN
    /\ length >= 3
    /\ Wrapped

\* C2 as stated: the slots outside the snake segment hold exactly the cells
\* marked Empty, and snake length plus free count is N*N.
C2_FreeIsEmpty ==
    /\ FreeCells = EmptyCells
    /\ length + Cardinality(FreeCells) = MAP_SIZE

\* C2 amended: the slots outside the snake segment, which food sampling draws
\* from, hold exactly the cells not marked Snake (the Empty cells and the Food
\* cell), each once, and snake length plus free count is N*N.
C2_FreeIsNonSnake ==
    /\ FreeCells = EmptyCells \cup FoodCells
    /\ FreeCells = Cells \ SnakeCells
    /\ length + Cardinality(FreeCells) = MAP_SIZE

\* C2 witness: after a move of a grown snake, with Empty cells and the Food
\* cell both in the free slots.
C2_Witness ==
    /\ result = STATE_RUN
    /\ length >= 2
    /\ EmptyCells # {}
    /\ FoodCells \subseteq FreeCells
    /\ FoodCells # {}

\* C3: in every state after default() exactly one cell is CELL_FOOD, it is not
\* in the snake body, and every other cell outside the body is CELL_EMPTY.
C3_OneFood ==
    /\ Cardinality(FoodCells) = 1
    /\ FoodCells \cap RingCells = {}
    /\ \A c \in Cells \ RingCells : c \notin FoodCells => map[c] = CELL_EMPTY

\* C3 witness: right after a food was eaten and a new one placed.
C3_Witness ==
    /\ result = STATE_RUN
    /\ collision = CELL_FOOD
    /\ length >= 2

\* C4: any two consecutive body cells, read from tail to head through the
\* ring, are exactly one grid step apart on exactly one axis.
C4_Contiguous ==
    \A i \in 0 .. (length - 2) :
        OneStep(hashed_positions[RingSlot(i)], hashed_positions[RingSlot(i + 1)])

\* C4 witness: a body of three cells whose segment wraps around the end of
\* the array, with a turn in it.
C4_Witness ==
    /\ length >= 3
    /\ Wrapped
    /\ result = STATE_RUN
    /\ CellX(TailCell) # CellX(HeadCell)
    /\ CellY(TailCell) # CellY(HeadCell)

(***************************************************************************)
(* C5..C10: what one update call returns and changes.  In a step of        *)
(* Update, input' is the direction passed to the call, direction' the      *)
(* direction the call moves along, and the unprimed variables are the      *)
(* game before the call.                                                   *)
(***************************************************************************)

\* The call moves along a direction and its candidate head is on the grid.
OnGridTick == direction' # DIRECTION_NONE /\ ~OffGrid(Candidate(direction'))

\* The candidate head cell of the call (defined when OnGridTick).
CandidateCell == CellOf(Candidate(direction'))

\* The call is a Food collision that returns Running.
FoodRun ==
    /\ OnGridTick
    /\ map[CandidateCell] = CELL_FOOD
    /\ result' = STATE_RUN

\* The fields of the game that an Over result is said to leave alone.
boardVars == <<map, tail_index, length, hashed_positions, indices>>

\* The number of slots food sampling draws from, and the number of Empty cells.
FreeCount == Cardinality(FreeCells)
EmptyCount == Cardinality(EmptyCells)

\* C5: a tick with a non-None direction returns Over exactly when the
\* candidate head is off the grid, or on a Snake cell, or on the Food cell
\* while length >= N*N - 1; in every other case it returns Running.
C5_OverIff ==
    [][ input' # DIRECTION_NONE =>
          LET p == Candidate(input')
              over == \/ OffGrid(p)
                      \/ map[CellOf(p)] = CELL_SNAKE
                      \/ (map[CellOf(p)] = CELL_FOOD /\ length >= MAP_SIZE - 1)
          IN  /\ (result' = STATE_OVER) <=> over
              /\ ~over => result' = STATE_RUN ]_vars

\* C5 witness: the board is full but for the Food cell, the head is next to
\* it, and the tick onto it has returned Over.
C5_Witness ==
    /\ result = STATE_OVER
    /\ input # DIRECTION_NONE
    /\ length = MAP_SIZE - 1
    /\ ~OffGrid(Candidate(input))
    /\ map[CellOf(Candidate(input))] = CELL_FOOD

\* C6 as stated: with length >= 2, a tick whose candidate head is the cell
\* holding the tail returns Running, with the tail popped and the head pushed
\* into that cell.
C6_TailMoveRuns ==
    [][ (OnGridTick /\ length >= 2 /\ CandidateCell = TailCell) =>
          /\ result' = STATE_RUN
          /\ Body' = Append(Tail(Body), CandidateCell) ]_vars

\* C6 amended: with length >= 2, a tick whose candidate head is the cell
\* holding the tail returns Over and changes neither map nor ring, because the
\* collision test reads the map before the tail is popped.
C6_TailMoveOver ==
    [][ (OnGridTick /\ length >= 2 /\ CandidateCell = TailCell) =>
          /\ result' = STATE_OVER
          /\ UNCHANGED boardVars ]_vars

\* C6 witness: a snake of two cells or more has just been steered into the
\* cell of its own tail.
C6_Witness ==
    /\ length >= 2
    /\ input # DIRECTION_NONE
    /\ ~OffGrid(Candidate(input))
    /\ CellOf(Candidate(input)) = TailCell
    /\ collision = CELL_SNAKE
    /\ result = STATE_OVER

\* C7: a Food collision that returns Running grows the snake by exactly one:
\* tail_index and the tail cell stay, the previous body keeps its order, and
\* the candidate cell becomes the head and is marked Snake.
C7_Growth ==
    [][ FoodRun =>
          /\ length' = length + 1
          /\ tail_index' = tail_index
          /\ TailCell' = TailCell
          /\ Body' = Append(Body, CandidateCell)
          /\ HeadCell' = CandidateCell
          /\ map'[CandidateCell] = CELL_SNAKE ]_vars

\* C7 witness: a snake of at least two cells has just eaten again.
C7_Witness ==
    /\ result = STATE_RUN
    /\ collision = CELL_FOOD
    /\ length >= 3

\* C8 as stated: a Food collision that returns Running leaves the free count
\* as it was.
C8_FreeCountKept ==
    [][ FoodRun => FreeCount' = FreeCount ]_vars

\* C8 amended: a Food collision that returns Running lowers the free count by
\* exactly one, both as the number of slots food sampling draws from and as
\* the number of Empty cells.
C8_FreeCountDrops ==
    [][ FoodRun =>
          /\ FreeCount' = FreeCount - 1
          /\ EmptyCount' = EmptyCount - 1 ]_vars

\* C8 witness: food has just been eaten and Empty cells remain.
C8_Witness ==
    /\ result = STATE_RUN
    /\ collision = CELL_FOOD
    /\ EmptyCount >= 1
    /\ FreeCount = EmptyCount + 1

\* C9: a call that returns Over leaves map, tail_index, length,
\* hashed_positions and indices as they were.
C9_OverKeeps ==
    [][ result' = STATE_OVER => UNCHANGED boardVars ]_vars

\* C9 witness: Over from the Food cell with no Empty cell left; the snake has
\* not grown and the food is still there.
C9_Witness ==
    /\ result = STATE_OVER
    /\ collision = CELL_FOOD
    /\ length = MAP_SIZE - 1
    /\ EmptyCells = {}
    /\ Cardinality(FoodCells) = 1

\* C10: while no non-None direction has been passed, update(DIRECTION_NONE)
\* returns Ready and leaves every field of the game unchanged.
C10_PauseKeeps ==
    [][ (~steered /\ input' = DIRECTION_NONE) =>
          /\ result' = STATE_READY
          /\ UNCHANGED gameVars ]_vars

\* C10 witness: update(DIRECTION_NONE) has returned Ready before any direction
\* was passed.
C10_Witness ==
    /\ ~steered
    /\ input = DIRECTION_NONE
    /\ result = STATE_READY
    /\ direction = DIRECTION_NONE

(***************************************************************************)
(* C11..C20.                                                               *)
(***************************************************************************)

\* The center tile, as a cell index.
CenterCell == (MAP_SIDE_LENGTH \div 2) * MAP_SIDE_LENGTH + (MAP_SIDE_LENGTH \div 2)

\* C11: the state default() returns has direction None, a snake of length 1
\* on the center tile, exactly one Food cell that is not the center tile and
\* every other cell Empty; each of the N*N - 1 other cells is a possible food
\* position.
C11_Default ==
    /\ result = NO_RESULT =>
         /\ direction = DIRECTION_NONE
         /\ length = 1
         /\ Body = <<CenterCell>>
         /\ SnakeCells = {CenterCell}
         /\ Cardinality(FoodCells) = 1
         /\ CenterCell \notin FoodCells
         /\ EmptyCells = Cells \ (FoodCells \cup {CenterCell})
    /\ { c \in Cells : \E g \in default : g.map[c] = CELL_FOOD } = Cells \ {CenterCell}

\* C11 witness: a state default() returned, with the food on cell 0.
C11_Witness ==
    /\ result = NO_RESULT
    /\ map[0] = CELL_FOOD
    /\ map[CenterCell] = CELL_SNAKE

\* C12: a non-None direction passed to update replaces the remembered one
\* whatever that was, and the tick is played on head + that direction; None
\* keeps the remembered direction, along which the tick is played.
C12_DirectionReplaced ==
    [][ LET d == IF input' # DIRECTION_NONE THEN input' ELSE direction
            p == Candidate(d)
        IN  /\ direction' = d
            /\ d # DIRECTION_NONE =>
                 /\ OffGrid(p) => (result' = STATE_OVER /\ collision' = NO_CELL)
                 /\ ~OffGrid(p) => collision' = map[CellOf(p)]
                 /\ result' = STATE_RUN => HeadCell' = CellOf(p) ]_vars

\* C12 witness: the exact opposite of the remembered direction was passed and
\* the snake moved along it.
C12_Witness ==
    /\ reversed
    /\ result = STATE_RUN
    /\ direction = input

\* C13 as stated: once an update call has returned Over, every later update
\* call returns Over, whatever direction it passes.
C13_OverTerminal ==
    [][ result = STATE_OVER => result' = STATE_OVER ]_vars

\* C13 amended: once an update call has returned Over, a later call that
\* passes None or the remembered direction returns Over again and changes no
\* field of the game; update keeps no record of Over, so a call that passes
\* another direction can return Running.
C13_OverRepeats ==
    [][ (result = STATE_OVER /\ input' \in {DIRECTION_NONE, direction}) =>
          /\ result' = STATE_OVER
          /\ UNCHANGED gameVars ]_vars

\* C13 witness: no call has returned Running, a direction was passed, and the
\* following update(DIRECTION_NONE) has returned Over again.
C13_Witness ==
    /\ result = STATE_OVER
    /\ input = DIRECTION_NONE
    /\ steered
    /\ moves_count = 0

\* C14: in main's loop moves_count starts at 0 and goes up by exactly one on
\* each Running result and not at all on Ready or Over; the loop is left at
\* the first Over and no update call follows it; the count printed is the
\* count reached, that is the number of Running results.
C14_MovesCounted ==
    /\ moves_count = 0
    /\ [][ /\ pc = "loop" =>
                /\ moves_count' = moves_count + (IF result' = STATE_RUN THEN 1 ELSE 0)
                /\ (pc' = "over") <=> (result' = STATE_OVER)
                /\ pc' \in {"loop", "over"}
           /\ pc # "loop" =>
                /\ UNCHANGED <<gameVars, input, result, events, moves_count>>
                /\ pc' = "exit"
                /\ reported' = moves_count ]_vars

\* C14 witness: the loop ran, a move was counted, Over ended the loop and the
\* count was printed.
C14_Witness ==
    /\ pc = "exit"
    /\ result = STATE_OVER
    /\ moves_count >= 1
    /\ reported = moves_count

\* C15: no sequence of update calls reaches a panic: no subtraction on a
\* length of 0, no food draw from an empty range, no map cell outside
\* Empty/Food/Snake; between calls 1 <= length <= N*N - 1, and no update call
\* made from a reachable state panics.
C15_NoFault ==
    /\ fault = NO_FAULT
    /\ 1 <= length
    /\ length <= MAP_SIZE - 1
    /\ \A c \in Cells : map[c] \in {CELL_EMPTY, CELL_FOOD, CELL_SNAKE}
    /\ \A d \in Directions : \A o \in update(Game, d) : o.fault = NO_FAULT

\* C15 witness: the snake has just eaten its way to N*N - 1 cells, so the
\* last food draw was from a range of exactly one slot.
C15_Witness ==
    /\ fault = NO_FAULT
    /\ result = STATE_RUN
    /\ collision = CELL_FOOD
    /\ length = MAP_SIZE - 1
    /\ FreeCells = FoodCells

\* The cells on which update(d) can leave the food, over all its random draws.
PlacedFood(d) ==
    { c \in Cells : \E o \in update(Game, d) : o.game.map[c] = CELL_FOOD }

\* The tick along d is a Food collision with room left for a new food.
EatsAlong(d) ==
    /\ ~OffGrid(Candidate(d))
    /\ map[CellOf(Candidate(d))] = CELL_FOOD
    /\ length < MAP_SIZE - 1

\* C16: when a tick eats the food, every outcome returns Running and the
\* cells the new food can be placed on are exactly the cells the snake does
\* not occupy after the head push, that is the cells Empty before the tick:
\* never the cell the head has just taken, never a body cell, and each of
\* those Empty cells for some draw.
C16_FoodPlacement ==
    \A d \in Directions \ {DIRECTION_NONE} :
        EatsAlong(d) =>
            /\ \A o \in update(Game, d) : o.ret = STATE_RUN
            /\ PlacedFood(d) = Cells \ (RingCells \cup {CellOf(Candidate(d))})
            /\ PlacedFood(d) = EmptyCells
            /\ CellOf(Candidate(d)) \notin PlacedFood(d)

\* C16 witness: a snake that has already eaten stands next to the food again,
\* with Empty cells left for the next food.
C16_Witness ==
    /\ result = STATE_RUN
    /\ length >= 2
    /\ EmptyCells # {}
    /\ \E d \in Directions \ {DIRECTION_NONE} :
           EatsAlong(d) /\ PlacedFood(d) # {}

\* hashed_positions of game g is a permutation of the cell indices and
\* indices is its inverse.
PermOK(g) ==
    /\ { g.hashed_positions[i] : i \in Cells } = Cells
    /\ \A i \in Cells : g.indices[g.hashed_positions[i]] = i
    /\ \A c \in Cells : g.hashed_positions[g.indices[c]] = c

\* C17: in every reachable state hashed_positions is a permutation of
\* 0..N*N-1 with indices its inverse, for snake and non-snake cells alike, and
\* this also holds right after pop_snake_tail and right after push_snake_head
\* of a cell outside the snake, alone or after the pop as update runs them.
C17_Permutation ==
    /\ PermOK(Game)
    /\ PermOK(pop_snake_tail(Game))
    /\ \A c \in Cells \ RingCells : PermOK(push_snake_head(Game, c))
    /\ \A c \in EmptyCells : PermOK(push_snake_head(pop_snake_tail(Game), c))

\* C17 witness: after moves and growth the arrays are no longer the identity
\* they started as, and the snake segment wraps.
C17_Witness ==
    /\ result = STATE_RUN
    /\ length >= 2
    /\ Wrapped
    /\ \E i \in Cells : hashed_positions[i] # i
    /\ \E c \in RingCells : indices[c] # c
    /\ \E c \in Cells \ RingCells : indices[c] # c

\* The call is a tick whose candidate head cell is Empty.
EmptyTick ==
    /\ OnGridTick
    /\ map[CandidateCell] = CELL_EMPTY

C19_ReadyUntilSteered ==
    [][ /\ (result' = STATE_READY) <=> ~steered'
        /\ steered' => direction' # DIRECTION_NONE
        /\ direction # DIRECTION_NONE => direction' # DIRECTION_NONE ]_vars

\* C19 witness: after the snake was steered and has moved,
\* update(DIRECTION_NONE) has played a tick along the remembered direction
\* instead of returning Ready.
C19_Witness ==
    /\ steered
    /\ moves_count >= 1
    /\ input = DIRECTION_NONE
    /\ result \in {STATE_RUN, STATE_OVER}
    /\ direction # DIRECTION_NONE

\* The direction of the last arrow key among the events of a buffer, None
\* when the buffer holds no arrow key.
LastArrowDirection(buffer) ==
    LET arrows == { i \in 1 .. Len(buffer) : buffer[i] \in ArrowKeys }
    IN  IF arrows = {}
        THEN DIRECTION_NONE
        ELSE LET last == CHOOSE i \in arrows : \A j \in arrows : j <= i
             IN  CASE buffer[last] = "Up" -> DIRECTION_UP
                   [] buffer[last] = "Down" -> DIRECTION_DOWN
                   [] buffer[last] = "Left" -> DIRECTION_LEFT
                   [] buffer[last] = "Right" -> DIRECTION_RIGHT

\* C20: the direction main passes to update in an iteration is the last
\* direction input among the events buffered in that interval, and None only
\* if no direction input was buffered.
C20_LastDirection ==
    input = LastArrowDirection(events)

====
